---- MODULE Spec2Model ----
(***************************************************************************)
(* A model of yt-subs2srs: the sentence segmenter and sentence filter      *)
(* (src/modules/segmenter.py), the per-session transcript cache and the    *)
(* expiry sweep (src/modules/cache_manager.py), and the call that          *)
(* process_videos makes into the segmenter (src/app.py).                   *)
(*                                                                         *)
(* Texts are sequences of Unicode code points, so that the regular         *)
(* expressions of the source are modelled by what they match.  Times are   *)
(* whole seconds.                                                          *)
(***************************************************************************)
EXTENDS Integers, Sequences, FiniteSets, TLC

VARIABLES
    \* segment_into_sentences (segmenter.py:20-88)
    words,              \* the argument `words`
    max_length,         \* the argument `max_length`
    i,                  \* number of loop iterations completed
    current_sentence,   \* the accumulating buffer
    current_speaker,    \* assigned at lines 45 and 85
    sentences,          \* the result list
    discarded,          \* history: the buffers reset at a split without being appended
    seg_pc,             \* "loop" | "done" | "raised"
    \* filter_valid_sentences (segmenter.py:91-115), applied and applied again
    f_sentences,        \* the argument `sentences`
    f_min_length,       \* the argument `min_length`
    f_valid,            \* the list returned for f_sentences
    f_valid2,           \* the list returned for f_valid
    f_pc,               \* "start" | "once" | "twice"
    \* the session directories under tmp/ and the calls made on them
    \* (cache_manager.py)
    now,                \* time.time(), in seconds
    tmp_exists,         \* does the root directory tmp/ exist
    dirs,               \* session id -> the directory tmp/<id>
    last_call,          \* the last call made and what it returned
    prev_call,          \* the call made before that one
    deleted,            \* history: the sessions whose directory a cleanup removed
    ncalls,             \* number of calls made
    nticks,             \* number of clock advances
    \* two threads that call the same session's manager at once
    threads,            \* thread -> its call, its position in it and its result
    writes,             \* history: the threads in the order of their json.dump
    dir0,               \* history: the session directory before the calls
    \* the form and process_videos (app.py)
    p_pc,               \* "startup" | "form" | "video" | "segment" | "cards"
    p_files,            \* the stems of the uploaded files
    p_idx,              \* file_idx
    p_soft_limit,       \* soft_limit
    p_hard_limit,       \* hard_limit
    p_use_cache,        \* use_cache
    p_words,            \* the words of the video being processed
    p_transcribed,      \* the videos given to the transcriber by this call
    p_error             \* the exception the last submission ended with, or ""

segVars == <<words, max_length, i, current_sentence, current_speaker,
             sentences, discarded, seg_pc>>

filterVars == <<f_sentences, f_min_length, f_valid, f_valid2, f_pc>>

cacheVars == <<now, tmp_exists, dirs, last_call, prev_call, deleted, ncalls, nticks>>

pipeVars == <<p_pc, p_files, p_idx, p_soft_limit, p_hard_limit, p_use_cache,
              p_words, p_transcribed, p_error>>

raceVars == <<threads, writes, dir0>>

vars == <<segVars, filterVars, cacheVars, pipeVars, raceVars>>

-----------------------------------------------------------------------------
(* Bounds of the model *)

MaxWords == 8
MaxMarks == 2
MaxSentenceWords == 2
MaxSentences == 3
MaxMinLength == 2
MaxCalls == 3
MaxTicks == 1

-----------------------------------------------------------------------------
(* Characters *)

\* U+3042 HIRAGANA LETTER A, U+30A2 KATAKANA LETTER A, U+65E5 CJK "day",
\* U+0061 LATIN SMALL LETTER A
ChHira == 12354
ChKata == 12450
ChKanji == 26085
ChLatin == 97
\* U+3002 IDEOGRAPHIC FULL STOP, U+FF01 FULLWIDTH EXCLAMATION MARK,
\* U+FF1F FULLWIDTH QUESTION MARK, U+3001 IDEOGRAPHIC COMMA
ChFullStop == 12290
ChExclam == 65281
ChQuestion == 65311
ChComma == 12289
\* U+3000 IDEOGRAPHIC SPACE
ChIdeoSpace == 12288

\* the characters \s matches in a Python 3 str pattern
Whitespace ==
    (9..13) \cup (28..32) \cup {133, 160, 5760} \cup (8192..8202)
        \cup {8232, 8233, 8239, 8287, 12288}

\* re.search(r'[...]', text) for a character class given as a set of code points
ReSearch(class, text) == \E k \in 1..Len(text) : text[k] \in class

SentenceFinalClass == {ChFullStop, ChExclam, ChQuestion}
ClauseClass == {ChComma}
BoundaryClass == {ChFullStop, ChExclam, ChQuestion, ChComma} \cup Whitespace

-----------------------------------------------------------------------------
(* Words and sentences *)

\* speaker labels as the transcriber builds them (transcriber.py:94)
SpeakerA == "Speaker A"
SpeakerB == "Speaker B"

\* TranscriptWordData(text, start, end, speaker)
TranscriptWordData(text, start, end, speaker) ==
    [text |-> text, start |-> start, end |-> end, speaker |-> speaker]

RECURSIVE JoinTexts(_)
JoinTexts(ws) ==
    IF ws = <<>> THEN <<>> ELSE ws[1].text \o JoinTexts(Tail(ws))

\* Sentence.__init__ ; ws is non-empty at every call
Sentence(ws) ==
    [words |-> ws,
     text |-> JoinTexts(ws),
     start_time |-> ws[1].start,
     end_time |-> ws[Len(ws)].end,
     speaker |-> ws[1].speaker]

\* the sequences over S of length at most n
RECURSIVE SeqsUpTo(_, _)
SeqsUpTo(S, n) ==
    IF n = 0 THEN {<<>>}
    ELSE LET prev == SeqsUpTo(S, n - 1)
         IN  prev \cup {Append(q, x) : q \in {r \in prev : Len(r) = n - 1}, x \in S}

-----------------------------------------------------------------------------
(* segment_into_sentences *)

\* the smallest maximum the form accepts (app.py:276) and the default of
\* max_length
MinMaxWords == 3
DefaultMaxLength == 10

\* defaults of the parameters the pipeline never passes, and the buffer
\* lengths of lines 65 and 67
min_length == 3
max_duration == 8
PunctLen == 5
CommaLen == 7

\* the split decision without the speaker test of line 61
ShouldSplitNoSpeaker(word, has_next, next_word, cur, maxlen) ==
    LET duration == word.end - cur[1].start IN
    IF ~has_next THEN TRUE
    ELSE IF duration >= max_duration /\ Len(cur) >= min_length THEN TRUE
    ELSE IF ReSearch(SentenceFinalClass, word.text) /\ Len(cur) >= PunctLen THEN TRUE
    ELSE IF ReSearch(ClauseClass, word.text) /\ Len(cur) >= CommaLen THEN TRUE
    ELSE IF Len(cur) >= maxlen THEN ReSearch(BoundaryClass, word.text)
    ELSE FALSE

\* the split decision forcing a split as soon as max_length is reached
ShouldSplitForced(word, has_next, next_word, cur, maxlen) ==
    LET duration == word.end - cur[1].start IN
    IF ~has_next THEN TRUE
    ELSE IF word.speaker # next_word.speaker THEN TRUE
    ELSE IF duration >= max_duration /\ Len(cur) >= min_length THEN TRUE
    ELSE IF ReSearch(SentenceFinalClass, word.text) /\ Len(cur) >= PunctLen THEN TRUE
    ELSE IF ReSearch(ClauseClass, word.text) /\ Len(cur) >= CommaLen THEN TRUE
    ELSE Len(cur) >= maxlen

\* the split decision with a strict duration comparison at line 63
ShouldSplitStrictDuration(word, has_next, next_word, cur, maxlen) ==
    LET duration == word.end - cur[1].start IN
    IF ~has_next THEN TRUE
    ELSE IF word.speaker # next_word.speaker THEN TRUE
    ELSE IF duration > max_duration /\ Len(cur) >= min_length THEN TRUE
    ELSE IF ReSearch(SentenceFinalClass, word.text) /\ Len(cur) >= PunctLen THEN TRUE
    ELSE IF ReSearch(ClauseClass, word.text) /\ Len(cur) >= CommaLen THEN TRUE
    ELSE IF Len(cur) >= maxlen THEN ReSearch(BoundaryClass, word.text)
    ELSE FALSE

\* the split decision with the comma rule at the length of the full stop rule
ShouldSplitCommaAsFinal(word, has_next, next_word, cur, maxlen) ==
    LET duration == word.end - cur[1].start IN
    IF ~has_next THEN TRUE
    ELSE IF word.speaker # next_word.speaker THEN TRUE
    ELSE IF duration >= max_duration /\ Len(cur) >= min_length THEN TRUE
    ELSE IF ReSearch(SentenceFinalClass, word.text) /\ Len(cur) >= PunctLen THEN TRUE
    ELSE IF ReSearch(ClauseClass, word.text) /\ Len(cur) >= PunctLen THEN TRUE
    ELSE IF Len(cur) >= maxlen THEN ReSearch(BoundaryClass, word.text)
    ELSE FALSE

\* lines 53-72: the split decision for `word`, already appended to cur
ShouldSplit(word, has_next, next_word, cur, maxlen) ==
    LET duration == word.end - cur[1].start IN
    IF ~has_next THEN TRUE
    ELSE IF word.speaker # next_word.speaker THEN TRUE
    ELSE IF duration >= max_duration /\ Len(cur) >= min_length THEN TRUE
    ELSE IF ReSearch(SentenceFinalClass, word.text) /\ Len(cur) >= PunctLen THEN TRUE
    ELSE IF ReSearch(ClauseClass, word.text) /\ Len(cur) >= CommaLen THEN TRUE
    ELSE IF Len(cur) >= maxlen THEN ReSearch(BoundaryClass, word.text)
    ELSE FALSE

\* an emit rule without the final-sentence case of lines 78-80
EmitsLongOnly(cur, has_next) == Len(cur) >= min_length

\* lines 76-80: is the buffer appended to the result at a split
Emits(cur, has_next) ==
    Len(cur) >= min_length \/ (~has_next /\ cur # <<>>)

\* a reset that keeps the word just processed
ResetKeepLast(cur) == <<cur[Len(cur)]>>

\* a reset that keeps the first word of the buffer
ResetKeepFirst(cur) == <<cur[1]>>

\* line 83: the buffer after a split
Reset(cur) == <<>>

\* a line 50 that leaves the word out of the buffer
ListAppendDropped(buf, word) == buf

\* line 50: current_sentence.append(word)
ListAppend(buf, word) == Append(buf, word)

\* lines 56-57 assign `duration` only when the buffer is not empty, and line
\* 63 reads it when there is a next word of the same speaker: reading it
\* unassigned raises UnboundLocalError
DurationUnbound(word, has_next, next_word, cur) ==
    cur = <<>> /\ has_next /\ word.speaker = next_word.speaker

\* lines 15-16: words[0] and words[-1] of an empty list raise IndexError
SentenceRaises(ws) == ws = <<>>

\* one iteration of the for loop, lines 47-85
SegIterate ==
    /\ seg_pc = "loop"
    /\ i < Len(words)
    /\ LET word == words[i + 1]
           has_next == i + 2 <= Len(words)
           next_word == IF has_next THEN words[i + 2] ELSE word
           cur == ListAppend(current_sentence, word)
       IN  IF DurationUnbound(word, has_next, next_word, cur)
           THEN /\ seg_pc' = "raised"
                /\ UNCHANGED <<i, current_sentence, current_speaker, sentences,
                               discarded>>
           ELSE IF ShouldSplit(word, has_next, next_word, cur, max_length)
           THEN IF Emits(cur, has_next) /\ SentenceRaises(cur)
                THEN /\ seg_pc' = "raised"
                     /\ UNCHANGED <<i, current_sentence, current_speaker,
                                    sentences, discarded>>
                ELSE /\ sentences' = IF Emits(cur, has_next)
                                     THEN Append(sentences, Sentence(cur))
                                     ELSE sentences
                     /\ discarded' = IF Emits(cur, has_next)
                                     THEN discarded
                                     ELSE Append(discarded, cur)
                     /\ current_sentence' = Reset(cur)
                     /\ current_speaker' = IF has_next THEN next_word.speaker
                                           ELSE current_speaker
                     /\ i' = i + 1
                     /\ UNCHANGED seg_pc
           ELSE /\ current_sentence' = cur
                /\ i' = i + 1
                /\ UNCHANGED <<sentences, discarded, current_speaker, seg_pc>>
    /\ UNCHANGED <<words, max_length>>
    /\ UNCHANGED <<filterVars, cacheVars, pipeVars, raceVars>>

\* lines 40-41 (empty input) and 87-88 (loop exhausted)
SegReturn ==
    /\ seg_pc = "loop"
    /\ i = Len(words)
    /\ seg_pc' = "done"
    /\ UNCHANGED <<words, max_length, i, current_sentence, current_speaker,
                   sentences, discarded>>
    /\ UNCHANGED <<filterVars, cacheVars, pipeVars, raceVars>>

-----------------------------------------------------------------------------
(* filter_valid_sentences *)

\* [぀-ゟ゠-ヿ一-龯]
JapaneseClass == (12352..12447) \cup (12448..12543) \cup (19968..40879)

\* the loop of lines 102-112, `valid` being the list built so far
RECURSIVE FilterLoop(_, _, _)
FilterLoop(rest, minlen, valid) ==
    IF rest = <<>> THEN valid
    ELSE LET sentence == Head(rest) IN
         IF Len(sentence.words) < minlen
         THEN FilterLoop(Tail(rest), minlen, valid)
         ELSE IF ~ReSearch(JapaneseClass, sentence.text)
         THEN FilterLoop(Tail(rest), minlen, valid)
         ELSE FilterLoop(Tail(rest), minlen, Append(valid, sentence))

\* a filter whose loop starts at the second sentence
FilterSkipFirst(ss, minlen) ==
    IF ss = <<>> THEN <<>> ELSE FilterLoop(Tail(ss), minlen, <<>>)

\* a filter whose length test is <= instead of <
FilterLengthStrict(ss, minlen) == FilterLoop(ss, minlen + 1, <<>>)

filter_valid_sentences(ss, minlen) == FilterLoop(ss, minlen, <<>>)

-----------------------------------------------------------------------------
(* JSON, as json.dump writes it and json.load reads it back *)

\* Python's None.  Every speaker label starts with "Speaker " (SpeakerA).
None == "None"

JNull == [j |-> "null", v |-> 0]
JString(x) == [j |-> "string", v |-> x]
JNumber(x) == [j |-> "number", v |-> x]

\* a str or None as a JSON value, and back
DumpOptStr(x) == IF x = None THEN JNull ELSE JString(x)
LoadOptStr(jv) == IF jv.j = "null" THEN None ELSE jv.v

\* the dict of a word, lines 57-62, with start and end swapped
WordToDictSwapped(w) ==
    [text |-> w.text, start |-> w.end, end |-> w.start, speaker |-> w.speaker]

\* the dict of a word, lines 57-62
WordToDict(w) ==
    [text |-> w.text, start |-> w.start, end |-> w.end, speaker |-> w.speaker]

DumpWord(d) ==
    [text |-> JString(d.text), start |-> JNumber(d.start), end |-> JNumber(d.end),
     speaker |-> DumpOptStr(d.speaker)]

LoadWord(jw) ==
    [text |-> jw.text.v, start |-> jw.start.v, end |-> jw.end.v,
     speaker |-> LoadOptStr(jw.speaker)]

DumpEntry(e) ==
    [words |-> [k \in 1..Len(e.words) |-> DumpWord(e.words[k])],
     video_path |-> JString(e.video_path),
     audio_path |-> JString(e.audio_path),
     timestamp |-> JNumber(e.timestamp)]

LoadEntry(je) ==
    [words |-> [k \in 1..Len(je.words) |-> LoadWord(je.words[k])],
     video_path |-> je.video_path.v,
     audio_path |-> je.audio_path.v,
     timestamp |-> je.timestamp.v]

\* json.dump(cache, f) and json.load(f): a dict keyed by video name
JsonDump(cache) == [n \in DOMAIN cache |-> DumpEntry(cache[n])]
JsonLoad(doc) == [n \in DOMAIN doc |-> LoadEntry(doc[n])]

\* the text of a file: what json.dump wrote, or text that is not JSON (a
\* write cut short, bytes of another program)
\* the length of the text json.dump writes for a dict, line 76, counted in
\* units: one for the braces, one for each key and one for each word (texts
\* with the same numbers of keys and words are taken to be equally long)
RECURSIVE EntriesLen(_, _)
EntriesLen(doc, names) ==
    IF names = {} THEN 0
    ELSE LET n == CHOOSE x \in names : TRUE
         IN  1 + Len(doc[n].words) + EntriesLen(doc, names \ {n})

JsonLen(doc) == 1 + EntriesLen(doc, DOMAIN doc)

JsonText(doc) == [valid |-> TRUE, doc |-> doc, len |-> JsonLen(doc)]
CorruptText == [valid |-> FALSE, doc |-> <<>>, len |-> 1]

\* the text of a file just opened with mode 'w', line 75: nothing
EmptyText == [valid |-> FALSE, doc |-> <<>>, len |-> 0]

\* a write at offset 0 of a file that another handle has written since this
\* handle's open: the bytes beyond the new text stay, and a JSON document
\* followed by them is not JSON ("Extra data")
WriteAt0(old, new) ==
    IF new.len >= old.len THEN new
    ELSE [valid |-> FALSE, doc |-> <<>>, len |-> old.len]

\* json.load raises JSONDecodeError on text that is not JSON
JsonLoadRaises(text) == ~text.valid

-----------------------------------------------------------------------------
(* CacheManager *)

\* a file is <<>> when absent and <<content>> when present
NoFile == <<>>

\* a session directory that does not exist
NoDir == [exists |-> FALSE, activity_file |-> NoFile, cache_file |-> NoFile,
          source_dir |-> FALSE, source_files |-> {}, audio_of |-> "",
          is_file |-> FALSE, source_is_file |-> FALSE, activity_readable |-> TRUE]

\* update_activity, lines 36-39
update_activity(dir, t) == [dir EXCEPT !.activity_file = <<t>>]

\* __init__, lines 30-31: mkdir(exist_ok=True) raises FileExistsError when
\* the path is a regular file; "" when the constructor does not raise
ConstructException(dir) ==
    IF dir.is_file \/ dir.source_is_file THEN "FileExistsError" ELSE ""

\* __init__, lines 24-34, when it does not raise
CacheManager(dir, t) ==
    update_activity([dir EXCEPT !.exists = TRUE, !.source_dir = TRUE], t)

\* load_cache, lines 81-86, when the file holds JSON
load_cache(dir) ==
    IF dir.cache_file # NoFile THEN JsonLoad(dir.cache_file[1].doc) ELSE <<>>

\* a load_cache that opens the file without the test of line 83
LoadRaisesNoExistsTest(dir) ==
    dir.cache_file = NoFile \/ JsonLoadRaises(dir.cache_file[1])

\* load_cache, lines 83-85: json.load is not guarded, so its exception
\* leaves load_cache and the caller (get_transcript line 98, save_transcript
\* line 53)
LoadRaises(dir) ==
    dir.cache_file # NoFile /\ JsonLoadRaises(dir.cache_file[1])

\* save_transcript, line 75: open(.., 'w') raises FileNotFoundError when the
\* session directory is gone
SaveRaises(dir) == LoadRaises(dir) \/ ~dir.exists

\* a save_transcript that starts from an empty cache
SaveTranscriptNoLoad(dir, video_name, ws, video_path, audio_path, t) ==
    LET words_dict == [k \in 1..Len(ws) |-> WordToDict(ws[k])]
        entry == [words |-> words_dict, video_path |-> video_path,
                  audio_path |-> audio_path, timestamp |-> t]
        cache2 == [n \in {video_name} |-> entry]
    IN  update_activity([dir EXCEPT !.cache_file = <<JsonText(JsonDump(cache2))>>], t)

\* save_transcript, lines 56-72: the dict after cache[video_name] = {...}
UpsertEntry(cache, video_name, ws, video_path, audio_path, t) ==
    LET words_dict == [k \in 1..Len(ws) |-> WordToDict(ws[k])]
        entry == [words |-> words_dict, video_path |-> video_path,
                  audio_path |-> audio_path, timestamp |-> t]
    IN  [n \in DOMAIN cache \cup {video_name} |->
            IF n = video_name THEN entry ELSE cache[n]]

\* save_transcript, lines 52-79, when it does not raise and no other call
\* runs during it: the directory afterwards
save_transcript(dir, video_name, ws, video_path, audio_path, t) ==
    LET cache == load_cache(dir)
        cache2 == UpsertEntry(cache, video_name, ws, video_path, audio_path, t)
    IN  update_activity([dir EXCEPT !.cache_file = <<JsonText(JsonDump(cache2))>>], t)

\* get_transcript, lines 98-103, when it does not raise: is the lookup a
\* hit, the value returned (<<>> for None) and the directory afterwards
GetHit(dir, video_name) == video_name \in DOMAIN load_cache(dir)

GetReturn(dir, video_name) ==
    IF GetHit(dir, video_name) THEN <<load_cache(dir)[video_name]>> ELSE <<>>

\* a get_transcript that refreshes the activity whatever it finds
GetTranscriptAlwaysRefresh(dir, video_name, t) == update_activity(dir, t)

get_transcript(dir, video_name, t) ==
    IF GetHit(dir, video_name) THEN update_activity(dir, t) ELSE dir

\* words_to_objects, lines 112-120, with start and end swapped
WordsToObjectsSwapped(words_dict) ==
    [k \in 1..Len(words_dict) |->
        TranscriptWordData(words_dict[k].text, words_dict[k].end,
                           words_dict[k].start, words_dict[k].speaker)]

\* words_to_objects, lines 112-120
words_to_objects(words_dict) ==
    [k \in 1..Len(words_dict) |->
        TranscriptWordData(words_dict[k].text, words_dict[k].start,
                           words_dict[k].end, words_dict[k].speaker)]

\* seconds in an hour, line 131
SecondsPerHour == 3600

\* get_age_hours, lines 124-131, in seconds (the hours are this over 3600)
AgeSeconds(dir, t) ==
    IF dir.activity_file = NoFile THEN 0 ELSE t - dir.activity_file[1]

\* get_age_hours, line 127: open(.., 'r') raises PermissionError on a file
\* the process may write and not read
AgeException(dir) ==
    IF dir.activity_file # NoFile /\ ~dir.activity_readable
    THEN "PermissionError" ELSE ""

\* shutil.rmtree raises FileNotFoundError on a path that does not exist
RmtreeRaises(dir) == ~dir.exists

\* a cleanup without the test of line 135
CleanupRaisesUnguarded(dir) == RmtreeRaises(dir)

\* cleanup, lines 135-136: rmtree is called on a directory that exists
CleanupRaises(dir) == dir.exists /\ RmtreeRaises(dir)

\* cleanup, lines 135-137
cleanup(dir) == IF dir.exists THEN NoDir ELSE dir

\* the exception the body of the loop raises for one directory, lines
\* 157-161, "" when it raises none
BodyException(dir, max_age_hours, t) ==
    IF ConstructException(dir) # "" THEN ConstructException(dir)
    ELSE LET cache_mgr == CacheManager(dir, t)
             age == AgeSeconds(cache_mgr, t)
         IN  IF AgeException(cache_mgr) # "" THEN AgeException(cache_mgr)
             ELSE IF age > max_age_hours * SecondsPerHour /\ CleanupRaises(cache_mgr)
             THEN "FileNotFoundError"
             ELSE ""

\* the classes derived from Exception among those the body raises
ExceptionClasses == {"FileExistsError", "PermissionError", "FileNotFoundError"}

\* an `except` clause that names ValueError only
CaughtValueErrorOnly(e) == e = "ValueError"

\* line 164: `except Exception` catches e
Caught(e) == e \in ExceptionClasses

\* the body of the loop of cleanup_old_sessions for one directory, lines
\* 156-165: age > max_age_hours, both sides in seconds; the directory as the
\* body leaves it, at the statement that raised or at its end
SweepOne(dir, max_age_hours, t) ==
    IF ConstructException(dir) # "" THEN dir
    ELSE LET cache_mgr == CacheManager(dir, t)
             age == AgeSeconds(cache_mgr, t)
         IN  IF AgeException(cache_mgr) # "" THEN cache_mgr
             ELSE IF age > max_age_hours * SecondsPerHour /\ ~CleanupRaises(cache_mgr)
             THEN cleanup(cache_mgr)
             ELSE cache_mgr

\* cleanup_old_sessions, lines 148-165: nothing is done when the root is
\* missing; iterdir lists files and directories, and line 153 skips what
\* is not a directory
cleanup_old_sessions(root_exists, ds, max_age_hours, t) ==
    IF ~root_exists THEN ds
    ELSE [s \in DOMAIN ds |->
            IF ds[s].exists THEN SweepOne(ds[s], max_age_hours, t) ELSE ds[s]]

\* cleanup_old_sessions raises what its loop body raises and line 164 does
\* not catch
SweepRaises(root_exists, ds, max_age_hours, t) ==
    /\ root_exists
    /\ \E s \in DOMAIN ds :
          /\ ds[s].exists
          /\ BodyException(ds[s], max_age_hours, t) # ""
          /\ ~Caught(BodyException(ds[s], max_age_hours, t))

-----------------------------------------------------------------------------
(* Threads *)

Threads == {"t1", "t2"}

\* a thread that makes no call
NoThread == [op |-> "none", video_name |-> "", args |-> <<>>, pc |-> "done",
             cache |-> <<>>, raised |-> FALSE, ret |-> <<>>]

-----------------------------------------------------------------------------
(* Calls on the session cache *)

SessionIds == {"s1", "s2"}
VideoNames == {"v1", "v2"}
TickSeconds == SecondsPerHour \div 2
StartTime == 2 * SecondsPerHour

\* the paths process_videos records: source/<name>.mp4 (app.py:140) and
\* source/audio.mp3 (audio_processor.py:22)
VideoPath(name) == <<"source", name, ".mp4">>
AudioPath == <<"source", "audio.mp3">>

\* the transcripts saved: one with an unlabelled word, one with two speakers
Transcript1 ==
    <<TranscriptWordData(<<ChHira>>, 0, 1, None)>>
Transcript2 ==
    <<TranscriptWordData(<<ChKanji, ChFullStop>>, 0, 2, SpeakerA),
      TranscriptWordData(<<ChKata>>, 2, 3, SpeakerB)>>

SaveArgs ==
    {[words |-> Transcript1, video_path |-> VideoPath("v1"), audio_path |-> AudioPath],
     [words |-> Transcript2, video_path |-> VideoPath("v2"), audio_path |-> AudioPath]}

\* the thresholds of the sweep, in hours (app.py:59 passes 1.0)
DefaultMaxAgeHours == 1
MaxAges == {DefaultMaxAgeHours, DefaultMaxAgeHours + 1}

NoCall == [op |-> "none", session |-> "", video_name |-> "", args |-> <<>>,
           raised |-> FALSE, ret |-> <<>>, max_age |-> 0]

\* the video an earlier run extracted source/audio.mp3 from
OldVideo == "v0"

\* a session left by an earlier run, last active `age` seconds ago
OldSession(age) ==
    [NoDir EXCEPT !.exists = TRUE, !.activity_file = <<StartTime - age>>,
                  !.source_dir = TRUE, !.source_files = {AudioPath},
                  !.audio_of = OldVideo]

\* a session left by an earlier run whose cache file is not JSON
CorruptSession ==
    [OldSession(TickSeconds) EXCEPT !.cache_file = <<CorruptText>>]

CacheInit ==
    /\ now = StartTime
    /\ dirs \in [SessionIds -> {NoDir, OldSession(4 * TickSeconds), CorruptSession}]
    /\ last_call = NoCall
    /\ prev_call = NoCall
    /\ deleted = {}
    /\ ncalls = 0
    /\ nticks = 0
    /\ threads = [t \in Threads |-> NoThread]
    /\ writes = <<>>
    /\ dir0 = NoDir
    /\ tmp_exists = TRUE
    \* the segmenter, the filter and the form are not in use
    /\ words = <<>>
    /\ max_length = DefaultMaxLength
    /\ i = 0
    /\ current_sentence = <<>>
    /\ current_speaker = SpeakerA
    /\ sentences = <<>>
    /\ discarded = <<>>
    /\ seg_pc = "done"
    /\ f_sentences = <<>>
    /\ f_min_length = 0
    /\ f_valid = <<>>
    /\ f_valid2 = <<>>
    /\ f_pc = "twice"
    /\ p_pc = "form"
    /\ p_files = <<>>
    /\ p_idx = 0
    /\ p_soft_limit = 0
    /\ p_hard_limit = 0
    /\ p_use_cache = FALSE
    /\ p_words = <<>>
    /\ p_transcribed = <<>>
    /\ p_error = ""

Called(c) ==
    /\ ncalls < MaxCalls
    /\ ncalls' = ncalls + 1
    /\ last_call' = c
    /\ prev_call' = last_call
    /\ deleted' = deleted \cup {s \in DOMAIN dirs : dirs[s].exists /\ ~dirs'[s].exists}
    /\ UNCHANGED <<now, nticks>>
    /\ UNCHANGED <<segVars, filterVars, pipeVars, raceVars>>

\* CacheManager(session_dir)
Construct(s) ==
    /\ IF ConstructException(dirs[s]) # ""
       THEN UNCHANGED <<dirs, tmp_exists>>
       ELSE /\ dirs' = [dirs EXCEPT ![s] = CacheManager(dirs[s], now)]
            /\ tmp_exists' = TRUE
    /\ Called([NoCall EXCEPT !.op = "init", !.session = s,
                             !.raised = ConstructException(dirs[s]) # ""])

\* cache_mgr.save_transcript(video_name, words, video_path, audio_path); an
\* exception leaves the files as they were (line 53) or with no cache file
\* to write (line 75)
SaveTranscript(s, n, a) ==
    /\ IF SaveRaises(dirs[s])
       THEN UNCHANGED dirs
       ELSE dirs' = [dirs EXCEPT ![s] = save_transcript(dirs[s], n, a.words,
                                           a.video_path, a.audio_path, now)]
    /\ UNCHANGED tmp_exists
    /\ Called([NoCall EXCEPT !.op = "save", !.session = s, !.video_name = n,
                             !.args = <<a>>, !.raised = SaveRaises(dirs[s])])

\* cache_mgr.get_transcript(video_name)
GetTranscript(s, n) ==
    /\ IF LoadRaises(dirs[s])
       THEN UNCHANGED dirs
       ELSE dirs' = [dirs EXCEPT ![s] = get_transcript(dirs[s], n, now)]
    /\ UNCHANGED tmp_exists
    /\ Called([NoCall EXCEPT !.op = "get", !.session = s, !.video_name = n,
                             !.raised = LoadRaises(dirs[s]),
                             !.ret = IF LoadRaises(dirs[s]) THEN <<>>
                                     ELSE GetReturn(dirs[s], n)])

\* cache_mgr.cleanup()
Cleanup(s) ==
    /\ IF CleanupRaises(dirs[s])
       THEN UNCHANGED dirs
       ELSE dirs' = [dirs EXCEPT ![s] = cleanup(dirs[s])]
    /\ UNCHANGED tmp_exists
    /\ Called([NoCall EXCEPT !.op = "cleanup", !.session = s,
                             !.raised = CleanupRaises(dirs[s])])

\* cleanup_old_sessions(Path("tmp"), max_age_hours)
Sweep(h) ==
    /\ dirs' = cleanup_old_sessions(tmp_exists, dirs, h, now)
    /\ UNCHANGED tmp_exists
    /\ Called([NoCall EXCEPT !.op = "sweep", !.max_age = h,
                             !.raised = SweepRaises(tmp_exists, dirs, h, now)])

\* the clock advances between calls
Tick ==
    /\ nticks < MaxTicks
    /\ nticks' = nticks + 1
    /\ now' = now + TickSeconds
    /\ UNCHANGED <<tmp_exists, dirs, last_call, prev_call, deleted, ncalls>>
    /\ UNCHANGED <<segVars, filterVars, pipeVars, raceVars>>

CacheNext ==
    \/ \E s \in SessionIds : Construct(s)
    \/ \E s \in SessionIds, n \in VideoNames, a \in SaveArgs : SaveTranscript(s, n, a)
    \/ \E s \in SessionIds, n \in VideoNames : GetTranscript(s, n)
    \/ \E s \in SessionIds : Cleanup(s)
    \/ \E h \in MaxAges : Sweep(h)
    \/ Tick

-----------------------------------------------------------------------------
(* The sweep over a root with files and with directories it cannot handle *)

\* the entries of the root: the two sessions and a third name
SweepIds == SessionIds \cup {"s3"}

\* a regular file in the root
FileEntry == [NoDir EXCEPT !.is_file = TRUE]

\* a session directory in which `source` is a regular file
SourceIsFileSession ==
    [OldSession(4 * TickSeconds) EXCEPT !.source_dir = FALSE, !.source_files = {},
                                        !.audio_of = "", !.source_is_file = TRUE]

\* a session directory whose activity file the process may write and not read
UnreadableSession ==
    [OldSession(4 * TickSeconds) EXCEPT !.activity_readable = FALSE]

SweepInit ==
    /\ now = StartTime
    /\ tmp_exists \in BOOLEAN
    /\ dirs \in [SweepIds -> {NoDir, OldSession(4 * TickSeconds), FileEntry,
                              SourceIsFileSession, UnreadableSession}]
    /\ tmp_exists \/ \A s \in SweepIds : dirs[s] = NoDir
    /\ last_call = NoCall
    /\ prev_call = NoCall
    /\ deleted = {}
    /\ ncalls = 0
    /\ nticks = 0
    /\ threads = [t \in Threads |-> NoThread]
    /\ writes = <<>>
    /\ dir0 = NoDir
    \* the segmenter, the filter and the form are not in use
    /\ words = <<>>
    /\ max_length = DefaultMaxLength
    /\ i = 0
    /\ current_sentence = <<>>
    /\ current_speaker = SpeakerA
    /\ sentences = <<>>
    /\ discarded = <<>>
    /\ seg_pc = "done"
    /\ f_sentences = <<>>
    /\ f_min_length = 0
    /\ f_valid = <<>>
    /\ f_valid2 = <<>>
    /\ f_pc = "twice"
    /\ p_pc = "form"
    /\ p_files = <<>>
    /\ p_idx = 0
    /\ p_soft_limit = 0
    /\ p_hard_limit = 0
    /\ p_use_cache = FALSE
    /\ p_words = <<>>
    /\ p_transcribed = <<>>
    /\ p_error = ""

SweepNext ==
    \/ \E h \in MaxAges : Sweep(h)
    \/ Tick

-----------------------------------------------------------------------------
(* The form and process_videos *)

\* the parameters of segment_into_sentences, segmenter.py:20-25
SegmenterParams == <<"words", "max_length", "min_length", "max_duration">>

\* the call of app.py:166: one positional argument and two keywords
CallPositional == 1
CallKeywords == {"soft_limit", "hard_limit"}

\* Python binds a call when every keyword names a parameter that no
\* positional argument has taken; otherwise the call raises TypeError
AcceptsCall(params, npos, kws) ==
    /\ npos <= Len(params)
    /\ \A k \in kws : \E q \in (npos + 1)..Len(params) : params[q] = k

\* the session of this browser tab (app.py:69-71), fresh at startup
SessionId == "s1"

\* the bounds of the "Maximum Words per Sentence" input, app.py:276-278
FormMinWords == MinMaxWords
FormDefaultWords == 15
FormMaxWords == 50
NoHardLimit == 50

PipeInit ==
    /\ now = StartTime
    /\ dirs \in {d \in [SessionIds -> {NoDir, OldSession(TickSeconds),
                                       OldSession(4 * TickSeconds)}] :
                    d[SessionId] = NoDir}
    /\ last_call = NoCall
    /\ prev_call = NoCall
    /\ deleted = {}
    /\ ncalls = 0
    /\ nticks = 0
    /\ threads = [t \in Threads |-> NoThread]
    /\ writes = <<>>
    /\ dir0 = NoDir
    /\ tmp_exists = TRUE
    /\ p_pc = "startup"
    /\ p_files = <<>>
    /\ p_idx = 0
    /\ p_soft_limit = 0
    /\ p_hard_limit = 0
    /\ p_use_cache = FALSE
    /\ p_words = <<>>
    /\ p_transcribed = <<>>
    /\ p_error = ""
    \* the segmenter and the filter are not in use
    /\ words = <<>>
    /\ max_length = DefaultMaxLength
    /\ i = 0
    /\ current_sentence = <<>>
    /\ current_speaker = SpeakerA
    /\ sentences = <<>>
    /\ discarded = <<>>
    /\ seg_pc = "done"
    /\ f_sentences = <<>>
    /\ f_min_length = 0
    /\ f_valid = <<>>
    /\ f_valid2 = <<>>
    /\ f_pc = "twice"

\* app.py:57-62: the sweep at the start of the session
Startup ==
    /\ p_pc = "startup"
    /\ dirs' = cleanup_old_sessions(tmp_exists, dirs, DefaultMaxAgeHours, now)
    /\ p_pc' = "form"
    /\ UNCHANGED <<now, tmp_exists, last_call, prev_call, deleted, ncalls, nticks, p_files,
                   p_idx, p_soft_limit, p_hard_limit, p_use_cache, p_words,
                   p_transcribed, p_error>>
    /\ UNCHANGED <<segVars, filterVars, raceVars>>

\* app.py:298-314 and 93-98: the form is submitted and process_videos starts
Submit(files, max_words, limit_type) ==
    /\ p_pc = "form"
    /\ p_files' = files
    /\ p_soft_limit' = max_words
    /\ p_hard_limit' = IF limit_type = "Soft Limit" THEN NoHardLimit ELSE max_words
    /\ p_use_cache' = FALSE
    /\ dirs' = [dirs EXCEPT ![SessionId] = CacheManager(dirs[SessionId], now)]
    /\ p_idx' = 0
    /\ p_pc' = "video"
    /\ p_error' = ""
    /\ p_words' = <<>>
    /\ p_transcribed' = <<>>
    /\ tmp_exists' = TRUE
    /\ UNCHANGED <<now, last_call, prev_call, deleted, ncalls, nticks>>
    /\ UNCHANGED <<segVars, filterVars, raceVars>>

\* process_videos(uploaded_files, api_key, soft_limit, hard_limit,
\* use_video_tags, use_cache), app.py:90-111, called by any caller
CallProcessVideos(files, soft_limit, hard_limit, use_cache) ==
    /\ p_pc = "form"
    /\ p_files' = files
    /\ p_soft_limit' = soft_limit
    /\ p_hard_limit' = hard_limit
    /\ p_use_cache' = use_cache
    /\ dirs' = [dirs EXCEPT ![SessionId] = CacheManager(dirs[SessionId], now)]
    /\ p_idx' = 0
    /\ p_pc' = "video"
    /\ p_error' = ""
    /\ p_words' = <<>>
    /\ p_transcribed' = <<>>
    /\ tmp_exists' = TRUE
    /\ UNCHANGED <<now, last_call, prev_call, deleted, ncalls, nticks>>
    /\ UNCHANGED <<segVars, filterVars, raceVars>>

\* extract_audio, audio_processor.py:35-53: ffmpeg fails on a video file
\* that does not exist; otherwise audio.mp3 is written and the video removed
ExtractRaises(dir, video_path) == video_path \notin dir.source_files

extract_audio(dir, video_path) ==
    [dir EXCEPT !.source_files = (@ \cup {AudioPath}) \ {video_path},
                !.audio_of = video_path[2]]

\* a line 119 that never consults the cache
CachedDataIgnored(use_cache, dir, video_name) == <<>>

\* app.py:119, when get_transcript does not raise: cached_data, <<>> for None
CachedData(use_cache, dir, video_name) ==
    IF use_cache THEN GetReturn(dir, video_name) ELSE <<>>

\* app.py:114-162: one video up to the segmentation step; `transcribed` is
\* what the transcriber returns for it.  An exception leaves process_videos
\* (lines 240-242) and the caller shows it.
ProcessVideo(transcribed) ==
    /\ p_pc = "video"
    /\ p_idx < Len(p_files)
    /\ LET video_name == p_files[p_idx + 1]
           video_path == VideoPath(video_name)
           dir == dirs[SessionId]
           cached_data == CachedData(p_use_cache, dir, video_name)
           got == get_transcript(dir, video_name, now)
           saved == [dir EXCEPT !.source_files = @ \cup {video_path}]
           extracted == extract_audio(saved, video_path)
       IN  IF p_use_cache /\ LoadRaises(dir)
           THEN \* line 119 raises
                /\ p_pc' = "form"
                /\ p_error' = "JSONDecodeError"
                /\ UNCHANGED <<dirs, p_words, p_transcribed>>
           ELSE IF cached_data # <<>>
           THEN \* lines 122-133
                IF AudioPath \in dir.source_files
                THEN /\ p_words' = words_to_objects(cached_data[1].words)
                     /\ dirs' = [dirs EXCEPT ![SessionId] = got]
                     /\ p_pc' = "segment"
                     /\ UNCHANGED <<p_transcribed, p_error>>
                ELSE IF ExtractRaises(got, video_path)
                THEN /\ dirs' = [dirs EXCEPT ![SessionId] = got]
                     /\ p_pc' = "form"
                     /\ p_error' = "Exception"
                     /\ UNCHANGED <<p_words, p_transcribed>>
                ELSE /\ p_words' = words_to_objects(cached_data[1].words)
                     /\ dirs' = [dirs EXCEPT ![SessionId] =
                                   save_transcript(extract_audio(got, video_path),
                                       video_name,
                                       words_to_objects(cached_data[1].words),
                                       video_path, AudioPath, now)]
                     /\ p_pc' = "segment"
                     /\ UNCHANGED <<p_transcribed, p_error>>
           ELSE \* lines 138-159
                /\ p_transcribed' = Append(p_transcribed, video_name)
                /\ IF SaveRaises(extracted)
                   THEN /\ dirs' = [dirs EXCEPT ![SessionId] = extracted]
                        /\ p_pc' = "form"
                        /\ p_error' = "JSONDecodeError"
                        /\ UNCHANGED p_words
                   ELSE /\ p_words' = transcribed
                        /\ dirs' = [dirs EXCEPT ![SessionId] =
                                      save_transcript(extracted, video_name, transcribed,
                                                      video_path, AudioPath, now)]
                        /\ p_pc' = "segment"
                        /\ UNCHANGED p_error
    /\ UNCHANGED <<now, tmp_exists, last_call, prev_call, deleted, ncalls, nticks, p_files,
                   p_idx, p_soft_limit, p_hard_limit, p_use_cache>>
    /\ UNCHANGED <<segVars, filterVars, raceVars>>

\* app.py:166, and 240-242 with 324-326 when the call raises: the exception
\* leaves process_videos and the form shows the error
SegmentCall ==
    /\ p_pc = "segment"
    /\ IF AcceptsCall(SegmenterParams, CallPositional, CallKeywords)
       THEN /\ p_pc' = "cards"
            /\ UNCHANGED p_error
       ELSE /\ p_pc' = "form"
            /\ p_error' = "TypeError"
    /\ UNCHANGED <<now, tmp_exists, dirs, last_call, prev_call, deleted, ncalls, nticks,
                   p_files, p_idx, p_soft_limit, p_hard_limit, p_use_cache,
                   p_words, p_transcribed>>
    /\ UNCHANGED <<segVars, filterVars, raceVars>>

PipeNext ==
    \/ Startup
    \/ \E files \in SeqsUpTo(VideoNames, 2) \ {<<>>},
          max_words \in {FormMinWords, FormDefaultWords, FormMaxWords},
          limit_type \in {"Soft Limit", "Hard Limit"} :
             Submit(files, max_words, limit_type)
    \/ \E t \in {Transcript1, Transcript2} : ProcessVideo(t)
    \/ SegmentCall
    \/ Tick

\* process_videos called directly, with and without use_cache
ProcInit ==
    /\ now = StartTime
    /\ dirs \in {d \in [SessionIds -> {NoDir, OldSession(4 * TickSeconds),
                                       CorruptSession}] :
                    \A s \in SessionIds \ {SessionId} : d[s] = NoDir}
    /\ last_call = NoCall
    /\ prev_call = NoCall
    /\ deleted = {}
    /\ ncalls = 0
    /\ nticks = 0
    /\ threads = [t \in Threads |-> NoThread]
    /\ writes = <<>>
    /\ dir0 = NoDir
    /\ tmp_exists = TRUE
    /\ p_pc = "form"
    /\ p_files = <<>>
    /\ p_idx = 0
    /\ p_soft_limit = 0
    /\ p_hard_limit = 0
    /\ p_use_cache = FALSE
    /\ p_words = <<>>
    /\ p_transcribed = <<>>
    /\ p_error = ""
    \* the segmenter and the filter are not in use
    /\ words = <<>>
    /\ max_length = DefaultMaxLength
    /\ i = 0
    /\ current_sentence = <<>>
    /\ current_speaker = SpeakerA
    /\ sentences = <<>>
    /\ discarded = <<>>
    /\ seg_pc = "done"
    /\ f_sentences = <<>>
    /\ f_min_length = 0
    /\ f_valid = <<>>
    /\ f_valid2 = <<>>
    /\ f_pc = "twice"

ProcNext ==
    \/ \E files \in SeqsUpTo(VideoNames, 2) \ {<<>>},
          soft_limit \in {FormMinWords, FormDefaultWords},
          hard_limit \in {FormDefaultWords, NoHardLimit},
          use_cache \in BOOLEAN :
             CallProcessVideos(files, soft_limit, hard_limit, use_cache)
    \/ \E t \in {Transcript1, Transcript2} : ProcessVideo(t)
    \/ SegmentCall
    \/ Tick

-----------------------------------------------------------------------------
(* Two calls at once on one session *)

\* the session directory before the calls: constructed, with no cache file
\* or with the cache file of an earlier save of v1
RaceDirs ==
    {OldSession(TickSeconds)} \cup
    {save_transcript(OldSession(TickSeconds), "v1", a.words, a.video_path,
                     a.audio_path, StartTime - TickSeconds) : a \in SaveArgs}

\* the calls a thread makes: a save_transcript or a get_transcript
RaceCalls ==
    {[NoThread EXCEPT !.op = "save", !.video_name = n, !.args = <<a>>, !.pc = "load"] :
        n \in VideoNames, a \in SaveArgs} \cup
    {[NoThread EXCEPT !.op = "get", !.video_name = n, !.pc = "load"] : n \in VideoNames}

RaceInit ==
    /\ now = StartTime
    /\ tmp_exists = TRUE
    /\ dirs \in {[s \in SessionIds |-> IF s = SessionId THEN d ELSE NoDir] : d \in RaceDirs}
    /\ dir0 = dirs[SessionId]
    /\ threads \in [Threads -> RaceCalls]
    /\ writes = <<>>
    /\ last_call = NoCall
    /\ prev_call = NoCall
    /\ deleted = {}
    /\ ncalls = 0
    /\ nticks = 0
    \* the segmenter, the filter and the form are not in use
    /\ words = <<>>
    /\ max_length = DefaultMaxLength
    /\ i = 0
    /\ current_sentence = <<>>
    /\ current_speaker = SpeakerA
    /\ sentences = <<>>
    /\ discarded = <<>>
    /\ seg_pc = "done"
    /\ f_sentences = <<>>
    /\ f_min_length = 0
    /\ f_valid = <<>>
    /\ f_valid2 = <<>>
    /\ f_pc = "twice"
    /\ p_pc = "form"
    /\ p_files = <<>>
    /\ p_idx = 0
    /\ p_soft_limit = 0
    /\ p_hard_limit = 0
    /\ p_use_cache = FALSE
    /\ p_words = <<>>
    /\ p_transcribed = <<>>
    /\ p_error = ""

\* load_cache, lines 83-85, called at line 53 or 98: the thread reads the
\* file as it is now; get_transcript goes on to lines 99-103
RaceLoad(t) ==
    /\ threads[t].pc = "load"
    /\ LET th == threads[t]
           dir == dirs[SessionId]
       IN  threads' = [threads EXCEPT ![t] =
              IF LoadRaises(dir) THEN [th EXCEPT !.pc = "done", !.raised = TRUE]
              ELSE IF th.op = "save"
              THEN [th EXCEPT !.pc = "open", !.cache = load_cache(dir)]
              ELSE IF GetHit(dir, th.video_name)
              THEN [th EXCEPT !.pc = "activity", !.ret = GetReturn(dir, th.video_name)]
              ELSE [th EXCEPT !.pc = "done"]]
    /\ UNCHANGED <<cacheVars, writes, dir0>>
    /\ UNCHANGED <<segVars, filterVars, pipeVars>>

\* save_transcript, line 75: open(self.cache_file, 'w') empties the file
RaceOpen(t) ==
    /\ threads[t].pc = "open"
    /\ dirs' = [dirs EXCEPT ![SessionId].cache_file = <<EmptyText>>]
    /\ threads' = [threads EXCEPT ![t].pc = "dump"]
    /\ UNCHANGED <<now, tmp_exists, last_call, prev_call, deleted, ncalls, nticks,
                   writes, dir0>>
    /\ UNCHANGED <<segVars, filterVars, pipeVars>>

\* save_transcript, line 76 and the end of the with block: the text of the
\* dict the thread loaded, with its entry, is written at offset 0
RaceDump(t) ==
    /\ threads[t].pc = "dump"
    /\ LET th == threads[t]
           a == th.args[1]
           cache2 == UpsertEntry(th.cache, th.video_name, a.words, a.video_path,
                                 a.audio_path, now)
       IN  dirs' = [dirs EXCEPT ![SessionId].cache_file =
                       <<WriteAt0(dirs[SessionId].cache_file[1], JsonText(JsonDump(cache2)))>>]
    /\ threads' = [threads EXCEPT ![t].pc = "activity"]
    /\ writes' = Append(writes, t)
    /\ UNCHANGED <<now, tmp_exists, last_call, prev_call, deleted, ncalls, nticks, dir0>>
    /\ UNCHANGED <<segVars, filterVars, pipeVars>>

\* update_activity, called at line 79 or 101
RaceActivity(t) ==
    /\ threads[t].pc = "activity"
    /\ dirs' = [dirs EXCEPT ![SessionId] = update_activity(dirs[SessionId], now)]
    /\ threads' = [threads EXCEPT ![t].pc = "done"]
    /\ UNCHANGED <<now, tmp_exists, last_call, prev_call, deleted, ncalls, nticks,
                   writes, dir0>>
    /\ UNCHANGED <<segVars, filterVars, pipeVars>>

RaceNext ==
    \/ \E t \in Threads : RaceLoad(t)
    \/ \E t \in Threads : RaceOpen(t)
    \/ \E t \in Threads : RaceDump(t)
    \/ \E t \in Threads : RaceActivity(t)

-----------------------------------------------------------------------------
(* Input sentence lists of the filter *)

\* the texts a filtered word may have: Latin, the three target scripts, and
\* Latin followed by an ideographic full stop
FilterTexts ==
    {<<ChLatin>>, <<ChHira>>, <<ChKata>>, <<ChKanji>>, <<ChLatin, ChFullStop>>}

\* a sentence of n words: the first has text `first`, the others are Latin
FilterSentence(n, first) ==
    Sentence([p \in 1..n |->
                TranscriptWordData(IF p = 1 THEN first ELSE <<ChLatin>>,
                                   p - 1, p, SpeakerA)])

FilterSentences ==
    {FilterSentence(n, t) : n \in 1..MaxSentenceWords, t \in FilterTexts}

FilterInit ==
    /\ \E n \in 0..MaxSentences : f_sentences \in [1..n -> FilterSentences]
    /\ f_min_length \in 1..MaxMinLength
    /\ f_valid = <<>>
    /\ f_valid2 = <<>>
    /\ f_pc = "start"
    \* the segmenter, the cache and the form are not in use
    /\ words = <<>>
    /\ max_length = DefaultMaxLength
    /\ i = 0
    /\ current_sentence = <<>>
    /\ current_speaker = SpeakerA
    /\ sentences = <<>>
    /\ discarded = <<>>
    /\ seg_pc = "done"
    /\ now = StartTime
    /\ dirs = [s \in SessionIds |-> NoDir]
    /\ last_call = NoCall
    /\ prev_call = NoCall
    /\ deleted = {}
    /\ ncalls = 0
    /\ nticks = 0
    /\ threads = [t \in Threads |-> NoThread]
    /\ writes = <<>>
    /\ dir0 = NoDir
    /\ tmp_exists = TRUE
    /\ p_pc = "form"
    /\ p_files = <<>>
    /\ p_idx = 0
    /\ p_soft_limit = 0
    /\ p_hard_limit = 0
    /\ p_use_cache = FALSE
    /\ p_words = <<>>
    /\ p_transcribed = <<>>
    /\ p_error = ""

FilterOnce ==
    /\ f_pc = "start"
    /\ f_valid' = filter_valid_sentences(f_sentences, f_min_length)
    /\ f_pc' = "once"
    /\ UNCHANGED <<f_sentences, f_min_length, f_valid2>>
    /\ UNCHANGED <<segVars, cacheVars, pipeVars, raceVars>>

FilterAgain ==
    /\ f_pc = "once"
    /\ f_valid2' = filter_valid_sentences(f_valid, f_min_length)
    /\ f_pc' = "twice"
    /\ UNCHANGED <<f_sentences, f_min_length, f_valid>>
    /\ UNCHANGED <<segVars, cacheVars, pipeVars, raceVars>>

FilterNext == FilterOnce \/ FilterAgain

-----------------------------------------------------------------------------
(* Input word streams *)

\* the lengths of a word of the input, in seconds
WordDurations == [short |-> 1, long |-> 4]

MarkTypes == {"final", "comma", "space", "long", "change"}

\* the text of word p of a stream with the marks `marks`
MarkedText(marks, p) ==
    <<ChHira>>
      \o (IF <<p, "final">> \in marks THEN <<ChFullStop>> ELSE <<>>)
      \o (IF <<p, "comma">> \in marks THEN <<ChComma>> ELSE <<>>)
      \o (IF <<p, "space">> \in marks THEN <<ChIdeoSpace>> ELSE <<>>)

Other(s) == IF s = SpeakerA THEN SpeakerB ELSE SpeakerA

\* words p..n of a stream of contiguous words: a word marked "long" is long,
\* and the speaker of a word marked "change" differs from the previous word's
RECURSIVE BuildWords(_, _, _, _, _)
BuildWords(marks, n, p, t, spk) ==
    IF p > n THEN <<>>
    ELSE LET s == IF <<p, "change">> \in marks THEN Other(spk) ELSE spk
             d == IF <<p, "long">> \in marks THEN WordDurations.long
                  ELSE WordDurations.short
         IN  <<TranscriptWordData(MarkedText(marks, p), t, t + d, s)>>
               \o BuildWords(marks, n, p + 1, t + d, s)

\* the choices of MaxMarks marks, each a marked word or no mark
NoMark == <<0, "none">>
MarkChoices(n) == [1..MaxMarks -> ((1..n) \X MarkTypes) \cup {NoMark}]

\* the values of max_length the segmenter is run with
MaxLengths == {MinMaxWords, DefaultMaxLength}

\* the input: up to MaxWords words, at most MaxMarks of them marked
SegInit ==
    /\ \E n \in 0..MaxWords : \E m \in MarkChoices(n) :
          words = BuildWords({m[k] : k \in 1..MaxMarks}, n, 1, 0, SpeakerA)
    /\ max_length \in MaxLengths
    /\ i = 0
    /\ current_sentence = <<>>
    /\ current_speaker = IF words = <<>> THEN SpeakerA ELSE words[1].speaker
    /\ sentences = <<>>
    /\ discarded = <<>>
    /\ seg_pc = "loop"
    \* the filter, the cache and the form are not in use
    /\ f_sentences = <<>>
    /\ f_min_length = 0
    /\ f_valid = <<>>
    /\ f_valid2 = <<>>
    /\ f_pc = "twice"
    /\ now = StartTime
    /\ dirs = [s \in SessionIds |-> NoDir]
    /\ last_call = NoCall
    /\ prev_call = NoCall
    /\ deleted = {}
    /\ ncalls = 0
    /\ nticks = 0
    /\ threads = [t \in Threads |-> NoThread]
    /\ writes = <<>>
    /\ dir0 = NoDir
    /\ tmp_exists = TRUE
    /\ p_pc = "form"
    /\ p_files = <<>>
    /\ p_idx = 0
    /\ p_soft_limit = 0
    /\ p_hard_limit = 0
    /\ p_use_cache = FALSE
    /\ p_words = <<>>
    /\ p_transcribed = <<>>
    /\ p_error = ""

SegNext == SegIterate \/ SegReturn


SegSpec == SegInit /\ [][SegNext]_vars

FilterSpec == FilterInit /\ [][FilterNext]_vars

CacheSpec == CacheInit /\ [][CacheNext]_vars

PipeSpec == PipeInit /\ [][PipeNext]_vars

ProcSpec == ProcInit /\ [][ProcNext]_vars

SweepSpec == SweepInit /\ [][SweepNext]_vars

RaceSpec == RaceInit /\ [][RaceNext]_vars

-----------------------------------------------------------------------------
(* Properties of the segmenter *)

SegDone == seg_pc = "done"

RECURSIVE FlattenWords(_)
FlattenWords(ss) ==
    IF ss = <<>> THEN <<>> ELSE ss[1].words \o FlattenWords(Tail(ss))

RECURSIVE Concat(_)
Concat(bufs) ==
    IF bufs = <<>> THEN <<>> ELSE bufs[1] \o Concat(Tail(bufs))

SingleSpeaker(ws) == \A p, q \in 1..Len(ws) : ws[p].speaker = ws[q].speaker

HasMarker(w) == ReSearch(BoundaryClass, w.text)

\* C1: every emitted Sentence has at most hardLimit words.  The segmenter
\* takes one word limit, max_length, which in Hard Limit mode is both the
\* soft and the hard limit (app.py:308-310).
C1_HardLimit ==
    \A k \in 1..Len(sentences) : Len(sentences[k].words) <= max_length

\* C4: all words of one emitted Sentence carry the same speaker label, and
\* the buffer never runs across a speaker change: a word left in the buffer
\* is followed by a word of the same speaker.
C4_SpeakerBoundary ==
    /\ \A k \in 1..Len(sentences) :
          \A p \in 1..Len(sentences[k].words) :
             sentences[k].words[p].speaker = sentences[k].speaker
    /\ SingleSpeaker(current_sentence)
    /\ (current_sentence # <<>> /\ i < Len(words))
          => words[i + 1].speaker = current_sentence[1].speaker

\* C4 witness: the segmenter has emitted sentences of two different speakers
C4_Witness ==
    /\ SegDone
    /\ \E k, l \in 1..Len(sentences) : sentences[k].speaker # sentences[l].speaker

IsRun(buf) ==
    /\ buf # <<>>
    /\ \E p \in 1..Len(words) :
          /\ p + Len(buf) - 1 <= Len(words)
          /\ buf = SubSeq(words, p, p + Len(buf) - 1)

\* the discarded buffer that ends with the last input word, if there is one
TrailingDiscard ==
    IF \E k \in 1..Len(discarded) :
          discarded[k][Len(discarded[k])] = words[Len(words)]
    THEN discarded[Len(discarded)]
    ELSE <<>>

\* C3 as stated: the emitted Sentences together with a discarded trailing
\* fragment account for every input word exactly once, in order.
C3_CoverageTrailing ==
    (SegDone /\ words # <<>>) =>
        FlattenWords(sentences) \o TrailingDiscard = words

\* C3 amended: the emitted Sentences together with every discarded short
\* buffer are contiguous runs of the input that account for every input
\* word exactly once, in order.
C3_Coverage ==
    (SegDone /\ words # <<>>) =>
        LET bufs == [k \in 1..Len(sentences) |-> sentences[k].words] \o discarded
        IN  /\ \A k \in 1..Len(bufs) : IsRun(bufs[k])
            /\ \A p \in 1..Len(words) :
                  Cardinality({k \in 1..Len(bufs) :
                                 \E q \in 1..Len(bufs[k]) : bufs[k][q] = words[p]}) = 1
            /\ Len(Concat(bufs)) = Len(words)
            /\ \A k, l \in 1..Len(sentences) :
                  k < l => sentences[k].words[1].start < sentences[l].words[1].start

\* C3 witness: a finished run that emitted a sentence and discarded a buffer
C3_Witness == SegDone /\ sentences # <<>> /\ discarded # <<>>

NoMarkers(ws) == \A p \in 1..Len(ws) : ~HasMarker(ws[p])

CeilDiv(a, b) == (a + b - 1) \div b

\* C6: a stream of n words with no punctuation and no speaker change is cut
\* into ceil(n/h) sentences, each of h words except possibly the last.
C6_HardCutoff ==
    (SegDone /\ NoMarkers(words) /\ SingleSpeaker(words)) =>
        /\ Len(sentences) = CeilDiv(Len(words), max_length)
        /\ \A k \in 1..Len(sentences) :
              k < Len(sentences) => Len(sentences[k].words) = max_length

\* the only word with a marker is word p (index p - 1)
OnlyMarkerAt(p) ==
    /\ p \in 1..Len(words)
    /\ \A q \in 1..Len(words) : HasMarker(words[q]) <=> q = p

SplitsAnyway(word, has_next, next_word, cur) ==
    \/ ~has_next
    \/ word.speaker # next_word.speaker
    \/ (word.end - cur[1].start >= max_duration /\ Len(cur) >= min_length)

PosOf(w) == CHOOSE p \in 1..Len(words) : words[p] = w

\* C11: the emitted Sentences are contiguous runs of the input, pairwise
\* disjoint and in input order: each Sentence is the run of input words
\* starting at its first word, the next Sentence starts after it ends, and
\* start times do not decrease and the time spans do not overlap.
C11_DisjointRuns ==
    LET first(k) == PosOf(sentences[k].words[1])
        last(k) == first(k) + Len(sentences[k].words) - 1
    IN  /\ \A k \in 1..Len(sentences) :
              /\ last(k) <= Len(words)
              /\ sentences[k].words = SubSeq(words, first(k), last(k))
        /\ \A k \in 1..(Len(sentences) - 1) :
              /\ last(k) < first(k + 1)
              /\ sentences[k].start_time <= sentences[k + 1].start_time
              /\ sentences[k].end_time <= sentences[k + 1].start_time

\* C11 witness: two Sentences were emitted with a discarded buffer between
\* them
C11_Witness ==
    /\ SegDone
    /\ \E k \in 1..(Len(sentences) - 1) :
          sentences[k].end_time < sentences[k + 1].start_time

\* C12: the segmenter never raises, every Sentence it has constructed is
\* non-empty, and for an empty word list it returns the empty list.
C12_NoRaise ==
    /\ seg_pc # "raised"
    /\ \A k \in 1..Len(sentences) : sentences[k].words # <<>>
    /\ (SegDone /\ words = <<>>) => sentences = <<>>

\* C12 witness: a run on a non-empty list has returned, its last Sentence
\* being a single word
C12_Witness ==
    /\ SegDone
    /\ sentences # <<>>
    /\ Len(sentences[Len(sentences)].words) = 1

\* C20: at every split the buffer is appended to the result exactly when it
\* holds at least min_length words or the split is at the last word;
\* otherwise it is discarded, and no word of a discarded buffer is in any
\* Sentence.
C20_EmitRule ==
    [][(seg_pc = "loop" /\ i < Len(words) /\ i' = i + 1 /\ current_sentence' = <<>>) =>
         LET buf == Append(current_sentence, words[i + 1])
             final == i + 1 = Len(words)
         IN  /\ IF Len(buf) >= min_length \/ final
                THEN /\ sentences' = Append(sentences, Sentence(buf))
                     /\ discarded' = discarded
                ELSE /\ sentences' = sentences
                     /\ discarded' = Append(discarded, buf)
             /\ \A d \in 1..Len(discarded') : \A q \in 1..Len(discarded'[d]) :
                   \A k \in 1..Len(sentences') : \A p \in 1..Len(sentences'[k].words) :
                      sentences'[k].words[p] # discarded'[d][q]]_vars

\* C20 witness: a short buffer was discarded at a split before the end and
\* the short trailing buffer was emitted
C20_Witness ==
    /\ SegDone
    /\ discarded # <<>>
    /\ sentences # <<>>
    /\ Len(sentences[Len(sentences)].words) < min_length
    /\ sentences[Len(sentences)].words[1].start > discarded[1][1].start

\* the word after the last word of a Sentence is of the Sentence's speaker
FollowedBySameSpeaker(sentence) ==
    LET p == PosOf(sentence.words[Len(sentence.words)])
    IN  p < Len(words) /\ words[p + 1].speaker = sentence.speaker

\* C24: at a word that has a next word of the same speaker, with the
\* duration rule not met and the buffer shorter than max_length, a word with
\* sentence-final punctuation splits exactly when the buffer holds at least
\* 5 words, and a word with a clause separator and no sentence-final
\* punctuation splits exactly when the buffer holds at least 7 words.
C24_PunctuationThresholds ==
    [][(seg_pc = "loop" /\ i < Len(words) /\ i' = i + 1) =>
         LET word == words[i + 1]
             has_next == i + 2 <= Len(words)
             buf == Append(current_sentence, word)
             final == ReSearch(SentenceFinalClass, word.text)
             comma == ReSearch(ClauseClass, word.text)
             split == current_sentence' = <<>>
         IN  (/\ has_next
              /\ word.speaker = words[i + 2].speaker
              /\ ~(word.end - buf[1].start >= max_duration /\ Len(buf) >= min_length)
              /\ Len(buf) < max_length) =>
                /\ final => (split <=> Len(buf) >= 5)
                /\ (comma /\ ~final) => (split <=> Len(buf) >= 7)]_vars

\* C24 witness: a Sentence of 7 words, shorter in time than the maximum
\* duration, was emitted at a clause separator before the end of the stream,
\* an earlier clause separator in it not having split
C24_Witness ==
    \E k \in 1..Len(sentences) :
        LET ws == sentences[k].words IN
        /\ Len(ws) = 7
        /\ Len(ws) < max_length
        /\ ReSearch(ClauseClass, ws[7].text)
        /\ ~ReSearch(SentenceFinalClass, ws[7].text)
        /\ \E q \in 5..6 : ReSearch(ClauseClass, ws[q].text)
        /\ ws[7].end - ws[1].start < max_duration
        /\ FollowedBySameSpeaker(sentences[k])

\* C27: at a word that has a next word of the same speaker, when the time
\* from the start of the buffer's first word to the end of the word is at
\* least max_duration and the buffer holds at least min_length words, the
\* segmenter splits after the word.
C27_DurationInclusive ==
    [][(seg_pc = "loop" /\ i < Len(words) /\ i' = i + 1) =>
         LET word == words[i + 1]
             has_next == i + 2 <= Len(words)
             buf == Append(current_sentence, word)
         IN  (/\ has_next
              /\ word.speaker = words[i + 2].speaker
              /\ word.end - buf[1].start >= max_duration
              /\ Len(buf) >= min_length) => current_sentence' = <<>>]_vars

\* C27 witness: a Sentence that spans exactly the maximum duration was
\* emitted at a word without punctuation or whitespace, before a word of the
\* same speaker
C27_Witness ==
    \E k \in 1..Len(sentences) :
        LET ws == sentences[k].words IN
        /\ sentences[k].end_time - sentences[k].start_time = max_duration
        /\ Len(ws) >= min_length
        /\ ~HasMarker(ws[Len(ws)])
        /\ FollowedBySameSpeaker(sentences[k])

-----------------------------------------------------------------------------
(* Properties of the filter *)

\* C9: filtering is idempotent: filtering the filtered list with the same
\* threshold returns the filtered list.
C9_FilterIdempotent ==
    f_pc = "twice" => f_valid2 = f_valid

\* C9 witness: the first pass dropped something and kept something, and the
\* second pass has run
C9_Witness ==
    /\ f_pc = "twice"
    /\ f_sentences # <<>>
    /\ f_valid # <<>>
    /\ Len(f_valid) < Len(f_sentences)

\* the test characters that belong to the target script
TargetScriptChars == {ChHira, ChKata, ChKanji}

HasTargetScript(sentence) ==
    \E p \in 1..Len(sentence.words) :
       \E k \in 1..Len(sentence.words[p].text) :
          sentence.words[p].text[k] \in TargetScriptChars

Qualifies(sentence, n) == Len(sentence.words) >= n /\ HasTargetScript(sentence)

\* the positions of ss that qualify, in increasing order
RECURSIVE KeptPositions(_, _, _)
KeptPositions(ss, n, p) ==
    IF p > Len(ss) THEN <<>>
    ELSE (IF Qualifies(ss[p], n) THEN <<p>> ELSE <<>>) \o KeptPositions(ss, n, p + 1)

\* C10: the filter returns exactly the sentences that have at least
\* minLength words and a target-script character, in their original order
\* and unmodified; a Latin-only sentence is dropped whatever its length.
C10_FilterExact ==
    f_pc # "start" =>
        LET kept == KeptPositions(f_sentences, f_min_length, 1)
        IN  /\ Len(f_valid) = Len(kept)
            /\ \A k \in 1..Len(kept) : f_valid[k] = f_sentences[kept[k]]

\* C10 witness: of three kinds of sentence given, one long enough and Latin
\* only, one with a target-script character and too short, one qualifying,
\* only the last kind was returned
C10_Witness ==
    /\ f_pc = "once"
    /\ f_valid # <<>>
    /\ \E p \in 1..Len(f_sentences) :
          Len(f_sentences[p].words) >= f_min_length /\ ~HasTargetScript(f_sentences[p])
    /\ \E p \in 1..Len(f_sentences) :
          Len(f_sentences[p].words) < f_min_length /\ HasTargetScript(f_sentences[p])

-----------------------------------------------------------------------------
(* Properties of the session cache *)

\* the step is a call of the operation op
IsCall(op) == ncalls' = ncalls + 1 /\ last_call'.op = op

\* C2: the sweep deletes every session whose last recorded activity is older
\* than the threshold and deletes no session whose last recorded activity is
\* younger.
C2_Expiry ==
    [][IsCall("sweep") =>
         \A s \in SessionIds :
            dirs[s].exists =>
               LET age == AgeSeconds(dirs[s], now)
                   limit == last_call'.max_age * SecondsPerHour
               IN  /\ age > limit => ~dirs'[s].exists
                   /\ age < limit => dirs'[s].exists]_vars

\* the last two calls were a save_transcript that returned and then a
\* get_transcript of the same name on the same session
SavedThenGot ==
    /\ prev_call.op = "save"
    /\ ~prev_call.raised
    /\ last_call.op = "get"
    /\ last_call.session = prev_call.session
    /\ last_call.video_name = prev_call.video_name

\* C5: get_transcript(name) right after a save_transcript(name, words, vp, ap)
\* that returned, on the same session, returns an entry whose words, turned
\* back into word objects, equal the words saved, and whose paths are vp, ap.
C5_RoundTrip ==
    SavedThenGot =>
        /\ last_call.ret # <<>>
        /\ words_to_objects(last_call.ret[1].words) = prev_call.args[1].words
        /\ last_call.ret[1].video_path = prev_call.args[1].video_path
        /\ last_call.ret[1].audio_path = prev_call.args[1].audio_path

\* C5 witness: a transcript with a word that has no speaker label was saved
\* and then looked up
C5_Witness ==
    /\ SavedThenGot
    /\ \E k \in 1..Len(prev_call.args[1].words) :
          prev_call.args[1].words[k].speaker = None

\* the entries of a session's cache file
Entries(dir) == load_cache(dir)

\* C13: a save_transcript(name, words, vp, ap) that returned leaves one entry
\* for name, holding the new words, the new paths and the time of the save
\* and nothing else; the entries of the other names are as before; the
\* last-activity timestamp is the time of the save.
C13_SaveUpserts ==
    [][(IsCall("save") /\ ~last_call'.raised) =>
         LET s == last_call'.session
             n == last_call'.video_name
             a == last_call'.args[1]
             before == Entries(dirs[s])
             after == Entries(dirs'[s])
         IN  /\ DOMAIN after = DOMAIN before \cup {n}
             /\ DOMAIN after[n] = {"words", "video_path", "audio_path", "timestamp"}
             /\ words_to_objects(after[n].words) = a.words
             /\ after[n].video_path = a.video_path
             /\ after[n].audio_path = a.audio_path
             /\ after[n].timestamp = now
             /\ \A m \in DOMAIN before \ {n} : after[m] = before[m]
             /\ dirs'[s].activity_file = <<now>>]_vars

\* C13 witness: a name saved with one transcript was saved again with another,
\* in the same session, with an entry of another name in the cache
C13_Witness ==
    /\ prev_call.op = "save"
    /\ last_call.op = "save"
    /\ ~prev_call.raised
    /\ ~last_call.raised
    /\ last_call.session = prev_call.session
    /\ last_call.video_name = prev_call.video_name
    /\ last_call.args # prev_call.args
    /\ DOMAIN Entries(dirs[last_call.session]) = VideoNames

\* C14: a get_transcript(name) that finds an entry of that name sets the
\* last-activity timestamp to the time of the call and leaves the cache
\* file as it is; one that finds none leaves the whole session directory,
\* timestamp and cache file, as it is.
C14_GetRefresh ==
    [][(IsCall("get") /\ ~last_call'.raised) =>
         LET s == last_call'.session
             n == last_call'.video_name
         IN  IF n \in DOMAIN Entries(dirs[s])
             THEN /\ dirs'[s].activity_file = <<now>>
                  /\ dirs'[s].cache_file = dirs[s].cache_file
                  /\ last_call'.ret = <<Entries(dirs[s])[n]>>
             ELSE /\ dirs'[s] = dirs[s]
                  /\ last_call'.ret = <<>>]_vars

\* C14 witness: a lookup of a name that is not in a non-empty cache has
\* returned None, and the last-activity timestamp is older than the clock
C14_Witness ==
    /\ last_call.op = "get"
    /\ ~last_call.raised
    /\ last_call.ret = <<>>
    /\ dirs[last_call.session].exists
    /\ DOMAIN Entries(dirs[last_call.session]) # {}
    /\ dirs[last_call.session].activity_file[1] < now

\* the cache file of the directory exists and is not JSON
CacheCorrupt(dir) == dir.cache_file # NoFile /\ ~dir.cache_file[1].valid

\* C15: on a session whose cache file is corrupt, get_transcript returns
\* None and save_transcript returns; neither raises.
C15_CorruptIsMiss ==
    [][((IsCall("get") \/ IsCall("save")) /\ CacheCorrupt(dirs[last_call'.session])) =>
         (~last_call'.raised /\ last_call'.ret = <<>>)]_vars

\* C16: a session that a cleanup has deleted stays deleted: its directory,
\* its activity file and its cache file never exist again.
C16_DeletedIsTerminal ==
    \A s \in deleted :
        /\ ~dirs[s].exists
        /\ dirs[s].activity_file = NoFile
        /\ dirs[s].cache_file = NoFile

\* C17: cleanup never raises; after it the directory, the cache file, the
\* activity file and the media files of the session are absent; on a session
\* that is already deleted it changes nothing.
C17_CleanupIdempotent ==
    [][IsCall("cleanup") =>
         LET s == last_call'.session
         IN  /\ ~last_call'.raised
             /\ ~dirs'[s].exists
             /\ dirs'[s].cache_file = NoFile
             /\ dirs'[s].activity_file = NoFile
             /\ ~dirs'[s].source_dir
             /\ dirs'[s].source_files = {}
             /\ \A o \in SessionIds \ {s} : dirs'[o] = dirs[o]
             /\ ~dirs[s].exists => dirs' = dirs]_vars

\* C17 witness: cleanup was called twice in a row on a session, the first
\* call having deleted its directory
C17_Witness ==
    /\ prev_call.op = "cleanup"
    /\ last_call.op = "cleanup"
    /\ last_call.session = prev_call.session
    /\ last_call.session \in deleted
    /\ ncalls = 2

\* C18: get_transcript on a session whose directory has been deleted returns
\* None for every name and does not raise.
C18_GetAfterDelete ==
    [][(/\ IsCall("get")
        /\ last_call'.session \in deleted
        /\ ~dirs[last_call'.session].exists) =>
          (last_call'.ret = <<>> /\ ~last_call'.raised)]_vars

\* C18 witness: a cleanup deleted the directory of a session and a name was
\* then looked up in that session
C18_Witness ==
    /\ last_call.op = "get"
    /\ prev_call.op = "cleanup"
    /\ last_call.session = prev_call.session
    /\ last_call.session \in deleted
    /\ ~dirs[last_call.session].exists

\* C25: the sweep leaves every session it does not delete as it was: the
\* activity file, the cache file and the source files are the same after
\* the sweep as before it.
C25_SweepFrame ==
    [][IsCall("sweep") =>
         \A s \in SessionIds : dirs'[s].exists => dirs'[s] = dirs[s]]_vars

\* the sweep has constructed a manager for the directory: its activity file
\* holds the time of the sweep, or the directory is gone
Examined(s) ==
    ~dirs'[s].exists \/ dirs'[s].activity_file = <<now>>

\* a directory the loop body handles without an exception
Sound(dir) == dir.exists /\ ~dir.source_is_file /\ dir.activity_readable

\* C28: the sweep returns without raising whatever the directories are; it
\* examines every session directory that can be examined, the others having
\* failed or not; it leaves alone the entries that are not directories; and
\* it does nothing when the root is missing.
C28_SweepIsolatesFailures ==
    [][IsCall("sweep") =>
         /\ ~last_call'.raised
         /\ ~tmp_exists => (dirs' = dirs /\ ~tmp_exists')
         /\ \A s \in DOMAIN dirs :
               /\ ~dirs[s].exists => dirs'[s] = dirs[s]
               /\ (tmp_exists /\ Sound(dirs[s])) => Examined(s)]_vars

\* C28 witness: a sweep has returned on a root that holds a directory whose
\* examination raised, a regular file, and a directory it examined
C28_Witness ==
    /\ last_call.op = "sweep"
    /\ ~last_call.raised
    /\ \E a, b, c \in DOMAIN dirs :
          /\ dirs[a].exists /\ ~Sound(dirs[a])
          /\ dirs[b].is_file
          /\ Sound(dirs[c]) /\ dirs[c].activity_file = <<now>>

\* C21: when two save_transcript calls on one session have both returned,
\* the cache file is the text of the dict that the thread that wrote last
\* had loaded, with that thread's entry.
C21_LaterWriteWins ==
    (\A t \in Threads : /\ threads[t].op = "save"
                        /\ threads[t].pc = "done"
                        /\ ~threads[t].raised) =>
        LET th == threads[writes[Len(writes)]]
            a == th.args[1]
        IN  dirs[SessionId].cache_file =
               <<JsonText(JsonDump(UpsertEntry(th.cache, th.video_name, a.words,
                                               a.video_path, a.audio_path, now)))>>

\* C22: a get_transcript that ran while a save_transcript ran on the same
\* session did not raise, and returned what it returns on the cache as it
\* was before the save or on the cache as it is after the save.
C22_GetSeesWholeCache ==
    \A g \in Threads, w \in Threads :
        (/\ threads[g].op = "get"
         /\ threads[g].pc = "done"
         /\ threads[w].op = "save") =>
            LET a == threads[w].args[1]
                after == save_transcript(dir0, threads[w].video_name, a.words,
                                         a.video_path, a.audio_path, now)
            IN  /\ ~threads[g].raised
                /\ threads[g].ret \in {GetReturn(dir0, threads[g].video_name),
                                       GetReturn(after, threads[g].video_name)}

-----------------------------------------------------------------------------
(* Properties of the pipeline *)

\* C19: when process_videos runs with use_cache and the cache of the session
\* holds an entry for the video, the step that prepares the video gives
\* nothing to the transcriber, and the words it hands to the segmentation
\* call are the words of that entry.
C19_CachedNotTranscribed ==
    [][(/\ p_pc = "video"
        /\ p_pc' # "video"
        /\ p_use_cache
        /\ p_files[p_idx + 1] \in DOMAIN Entries(dirs[SessionId])) =>
          /\ p_transcribed' = p_transcribed
          /\ p_pc' = "segment" =>
                p_words' = words_to_objects(Entries(dirs[SessionId])[p_files[p_idx + 1]].words)]_vars

\* C19 witness: a call with use_cache has reached the segmentation call with
\* the words of the cache and without transcribing
C19_Witness ==
    /\ p_pc = "segment"
    /\ p_use_cache
    /\ p_transcribed = <<>>
    /\ p_words # <<>>
    /\ p_files[p_idx + 1] \in DOMAIN Entries(dirs[SessionId])
    /\ p_words = words_to_objects(Entries(dirs[SessionId])[p_files[p_idx + 1]].words)

\* C8: the call process_videos makes into the segmenter is one the segmenter
\* accepts, so the segmentation step never ends in an argument error.
C8_SegmentCallAccepted ==
    /\ p_error # "TypeError"
    /\ p_pc = "segment" => AcceptsCall(SegmenterParams, CallPositional, CallKeywords)


\* C23: both files recorded in a cache entry of the session, the source
\* video and the source audio, are present in the session directory for as
\* long as the directory exists.
C23_SourceFilesKept ==
    (dirs[SessionId].exists /\ ~LoadRaises(dirs[SessionId])) =>
        \A n \in DOMAIN Entries(dirs[SessionId]) :
            /\ Entries(dirs[SessionId])[n].video_path \in dirs[SessionId].source_files
            /\ Entries(dirs[SessionId])[n].audio_path \in dirs[SessionId].source_files


\* the file source/audio.mp3 of the session holds the audio of this video
AudioHolds(dir, audio_path) ==
    IF audio_path = AudioPath /\ audio_path \in dir.source_files
    THEN dir.audio_of ELSE ""

\* C26: every cache entry of the session records an audio path whose file
\* holds the audio of the entry's own video.
C26_OwnAudio ==
    (dirs[SessionId].exists /\ ~LoadRaises(dirs[SessionId])) =>
        \A n \in DOMAIN Entries(dirs[SessionId]) :
            AudioHolds(dirs[SessionId], Entries(dirs[SessionId])[n].audio_path) = n

====
